---- MODULE Spec2Model ----
(***************************************************************************)
(* RoomArgus: the control loop of src/main.py.                             *)
(*                                                                         *)
(* The program is one thread: an endless loop that polls a debounced       *)
(* button, then runs either one Auto pass (read sensors, drive buzzer and  *)
(* LED, record the reading, render) or one Manual command session (a       *)
(* polling loop over serial input with a 10 s inactivity timeout).         *)
(*                                                                         *)
(* Time is in milliseconds.  `clock` is the true time since boot; the      *)
(* program only ever sees time.ticks_ms(), which wraps at TICKS_PERIOD.    *)
(***************************************************************************)
EXTENDS Integers, Sequences, FiniteSets, TLC

(***************************************************************************)
(* Program constants.                                                      *)
(***************************************************************************)
LIGHT_THRESHOLD == 10000
TEMP_THRESHOLD == 30
debounce_delay == 300
HISTORY_SIZE == 10
DHT_ATTEMPTS == 2
RETRY_SLEEP == 500
AUTO_SLEEP == 1000
MANUAL_SLEEP == 100
POLL_TIMEOUT == 100
INACTIVITY_LIMIT == 10000
READ_SIZE == 3
ADC_MAX == 65535

\* time.ticks_ms() counts modulo TICKS_PERIOD (2^30 on this port) and
\* time.ticks_diff() is the signed difference modulo that period.
TICKS_PERIOD == 1073741824
TICKS_HALF == 536870912

\* Python's None, and an exception raised by a driver call.
None == -999
Raise == -998

(***************************************************************************)
(* Bounds of the model.                                                    *)
(***************************************************************************)
\* outer-loop iterations of one run
MaxTicks == 2
\* serial inputs the operator sends in one run
MaxInputs == 1
\* add_reading calls of one run of SpecHistory
MaxRecords == 12
\* check_button polls of one run of SpecDebounce
MaxSamples == 5
\* ms into a poll at which a pending input makes poll() return
InputDelay == 1
\* length of the runs of consecutive idle session iterations taken in one step
IdleRun == 100
\* SpecSensors calls read_sensors while the clock is below this many ms
MaxReadClock == 1500
\* tick-counter values at program start: this many ms after the counter's
\* zero, or this many ms before it wraps
BootLate == 2000
BootBeforeWrap == 400
\* the shortest time between two polls of SpecDebounce
SampleGap == 150

Min(a, b) == IF a < b THEN a ELSE b

(***************************************************************************)
(* time.ticks_ms / time.ticks_diff                                         *)
(***************************************************************************)
ticks_ms(boot_, clock_) == (boot_ + clock_) % TICKS_PERIOD

ticks_diff(a, b) == ((a - b + TICKS_HALF) % TICKS_PERIOD) - TICKS_HALF

(***************************************************************************)
(* add_reading: append, then drop the oldest when more than 10 are held.   *)
(***************************************************************************)
Reading(time_, temp_, light_) == [time |-> time_, temp |-> temp_, light |-> light_]

\* as add_reading, but evicting with pop() (the newest) instead of pop(0)
add_reading_pop_newest(readings, reading) ==
    LET appended == Append(readings, reading)
    IN  IF Len(appended) > HISTORY_SIZE
        THEN SubSeq(appended, 1, Len(appended) - 1)
        ELSE appended

add_reading(readings, reading) ==
    LET appended == Append(readings, reading)
    IN  IF Len(appended) > HISTORY_SIZE THEN Tail(appended) ELSE appended

(***************************************************************************)
(* read_sensors.  The driver calls are inputs: each DHT11 attempt either   *)
(* yields a temperature or raises, the ADC read yields a value or raises.  *)
(***************************************************************************)
TempValues == {TEMP_THRESHOLD, TEMP_THRESHOLD + 1}
LightValues == {LIGHT_THRESHOLD - 1, LIGHT_THRESHOLD}
DhtResults == TempValues \cup {Raise}
\* a value outside 0..ADC_MAX, which the sanity check of line 81 is there for
AdcOutOfRange == ADC_MAX + 1
AdcResults == LightValues \cup {Raise, AdcOutOfRange}
\* the results of the attempts of one call, were they all made: a first
\* attempt that succeeds, one that fails before a success, and all failing
DhtRuns ==
    { [i \in 1..DHT_ATTEMPTS |-> IF i = 1 THEN t ELSE Raise] : t \in TempValues }
    \cup { [i \in 1..DHT_ATTEMPTS |-> IF i = 1 THEN Raise ELSE TEMP_THRESHOLD + 1],
           [i \in 1..DHT_ATTEMPTS |-> Raise] }

\* what the sensors do while a command session runs, where no threshold is
\* applied to the values: each channel either works or fails
ManualDhtRuns ==
    { [i \in 1..DHT_ATTEMPTS |-> IF i = 1 THEN TEMP_THRESHOLD + 1 ELSE Raise],
      [i \in 1..DHT_ATTEMPTS |-> Raise] }
ManualAdcResults == {LIGHT_THRESHOLD, Raise}

\* as dht_loop, but without the break: every attempt is made and the last
\* one that succeeds gives the value
dht_loop_no_break(results, i) ==
    LET ok == {j \in i..DHT_ATTEMPTS : results[j] # Raise}
    IN  [temp     |-> IF ok = {} THEN None
                      ELSE results[CHOOSE j \in ok : \A k \in ok : k <= j],
         attempts |-> DHT_ATTEMPTS,
         failures |-> (DHT_ATTEMPTS - i + 1) - Cardinality(ok)]

\* for _ in range(2): try measure()/temperature(), break; except: sleep(0.5)
RECURSIVE dht_loop(_, _)
dht_loop(results, i) ==
    IF i > DHT_ATTEMPTS
    THEN [temp |-> None, attempts |-> DHT_ATTEMPTS, failures |-> DHT_ATTEMPTS]
    ELSE IF results[i] # Raise
         THEN [temp |-> results[i], attempts |-> i, failures |-> i - 1]
         ELSE dht_loop(results, i + 1)

\* ldr_val = ldr.read_u16(); the range check raises after the assignment
ldr_read(adc) ==
    IF adc = Raise
    THEN [light |-> None, error |-> TRUE]
    ELSE [light |-> adc, error |-> (adc < 0 \/ adc > ADC_MAX)]

RECURSIVE Repeat(_, _)
Repeat(s, n) == IF n <= 0 THEN <<>> ELSE s \o Repeat(s, n - 1)

read_sensors(results, adc) ==
    LET d == dht_loop(results, 1)
        a == ldr_read(adc)
    IN  [temp     |-> d.temp,
         light    |-> a.light,
         attempts |-> d.attempts,
         elapsed  |-> d.failures * RETRY_SLEEP,
         log      |-> <<"read_sensors">>
                      \o Repeat(<<"measure", "print:Error reading DHT11 sensor", "sleep">>,
                                d.failures)
                      \o (IF d.temp # None THEN <<"measure">> ELSE <<>>)
                      \o <<"read_u16">>
                      \o (IF a.error THEN <<"print:Error reading LDR sensor">> ELSE <<>>)]

(***************************************************************************)
(* auto_mode's actuator policy (lines 117-135).                            *)
(***************************************************************************)
\* as BothPresent, but content with one of the two values
EitherPresent(temp_, light_) == temp_ # None \/ light_ # None

BothPresent(temp_, light_) == temp_ # None /\ light_ # None

\* as auto_buzzer, but with >= for the threshold
auto_buzzer_at_threshold(temp_, light_) ==
    IF BothPresent(temp_, light_)
    THEN (IF temp_ >= TEMP_THRESHOLD THEN 1 ELSE 0)
    ELSE 0

auto_buzzer(temp_, light_) ==
    IF BothPresent(temp_, light_)
    THEN (IF temp_ > TEMP_THRESHOLD THEN 1 ELSE 0)
    ELSE 0

\* as auto_led, but driven by the light channel alone when it is present
auto_led_light_only(temp_, light_) ==
    IF light_ # None
    THEN (IF light_ < LIGHT_THRESHOLD THEN 1 ELSE 0)
    ELSE 0

auto_led(temp_, light_) ==
    IF BothPresent(temp_, light_)
    THEN (IF light_ < LIGHT_THRESHOLD THEN 1 ELSE 0)
    ELSE 0

(***************************************************************************)
(* check_button: the debouncer.  Returns whether the poll is an accepted   *)
(* press, and the new debounce state.                                      *)
(***************************************************************************)
\* as check_button, but with the debounce comparison >= instead of >
check_button_at_delay(current_state, current_time, state_, time_) ==
    IF current_state = 0 /\ state_ = 1
    THEN IF ticks_diff(current_time, time_) >= debounce_delay
         THEN [pressed |-> TRUE, state |-> current_state, time |-> current_time]
         ELSE [pressed |-> FALSE, state |-> state_, time |-> time_]
    ELSE IF current_state = 1
         THEN [pressed |-> FALSE, state |-> current_state, time |-> time_]
         ELSE [pressed |-> FALSE, state |-> state_, time |-> time_]

\* as check_button, but remembering the level on every poll, so that a press
\* refused inside the debounce window uses up the edge
check_button_tracks_level(current_state, current_time, state_, time_) ==
    IF current_state = 0 /\ state_ = 1
    THEN IF ticks_diff(current_time, time_) > debounce_delay
         THEN [pressed |-> TRUE, state |-> current_state, time |-> current_time]
         ELSE [pressed |-> FALSE, state |-> current_state, time |-> time_]
    ELSE IF current_state = 1
         THEN [pressed |-> FALSE, state |-> current_state, time |-> time_]
         ELSE [pressed |-> FALSE, state |-> state_, time |-> time_]

check_button(current_state, current_time, state_, time_) ==
    IF current_state = 0 /\ state_ = 1
    THEN IF ticks_diff(current_time, time_) > debounce_delay
         THEN [pressed |-> TRUE, state |-> current_state, time |-> current_time]
         ELSE [pressed |-> FALSE, state |-> state_, time |-> time_]
    ELSE IF current_state = 1
         THEN [pressed |-> FALSE, state |-> current_state, time |-> time_]
         ELSE [pressed |-> FALSE, state |-> state_, time |-> time_]

(***************************************************************************)
(* sys.stdin.read(3).strip().lower() on sequences of characters.           *)
(***************************************************************************)
Whitespace == {" ", "\t", "\n", "\r"}

lower_char(c) ==
    CASE c = "B" -> "b"
      [] c = "L" -> "l"
      [] c = "M" -> "m"
      [] c = "R" -> "r"
      [] c = "S" -> "s"
      [] c = "X" -> "x"
      [] OTHER -> c

lower(s) == [i \in 1..Len(s) |-> lower_char(s[i])]

RECURSIVE lstrip(_)
lstrip(s) == IF s # <<>> /\ Head(s) \in Whitespace THEN lstrip(Tail(s)) ELSE s

RECURSIVE rstrip(_)
rstrip(s) ==
    IF s # <<>> /\ s[Len(s)] \in Whitespace
    THEN rstrip(SubSeq(s, 1, Len(s) - 1))
    ELSE s

strip(s) == rstrip(lstrip(s))

read(s, n) == SubSeq(s, 1, Min(n, Len(s)))

read_cmd(raw) == lower(strip(read(raw, READ_SIZE)))

\* what the operator may send in one burst
RawInputs ==
    { <<"m", "\r", "\n">>, <<"M", "\r", "\n">>, <<" ", "m", " ">>,
      <<"b", "\n">>, <<"B">>, <<"l", "\n">>, <<"L", "\r", "\n">>,
      <<"r", "\n">>, <<"s", "\n">>,
      <<"x", "\n">>, <<"X">>, <<"\r", "\n">>, <<"m", "m">> }

Commands == { <<"b">>, <<"l">>, <<"r">>, <<"s">>, <<"m">> }

(***************************************************************************)
(* State.                                                                  *)
(***************************************************************************)
VARIABLES
    mode,               \* "auto" | "manual"
    last_readings,      \* the history buffer, oldest first
    last_button_state,  \* debounce state
    last_button_time,   \* debounce state, a ticks_ms value
    led, buzzer,        \* output pins, 0 | 1
    pc,                 \* "tick" | "auto" | "manual" | "session"
    temp, ldr_val,      \* what read_sensors returned in the latest step, if it ran
    dht_in,             \* what the DHT11 attempts of that call give, were they all made
    start_time,         \* manual_mode's inactivity reference, a ticks_ms value
    cmd,                \* the command read in the latest step, if one was
    boot,               \* the tick counter's value at program start
    clock,              \* true ms since program start
    log,                \* calls and prints of the latest step, in order
    pressed,            \* what the latest check_button call returned
    \* history variables
    prev_level,         \* the level the previous check_button call sampled
    press_clock,        \* clock of the latest accepted press, -1 before the first
    press_gap,          \* ms between the latest two accepted presses, -1 before the second
    hold,               \* the current run of polls that sampled the button low
    start_clock,        \* clock at which start_time was taken
    button_down,        \* the button went down while the session last waited for input
    recorded,           \* every reading ever passed to add_reading
    ticks,              \* check_button calls so far
    inputs              \* serial inputs so far

vars == << mode, last_readings, last_button_state, last_button_time, led, buzzer,
           pc, temp, ldr_val, dht_in, start_time, cmd, boot, clock, log, pressed,
           prev_level, press_clock, press_gap, hold, start_clock, button_down, recorded,
           ticks, inputs >>

debounce == << last_button_state, last_button_time, pressed, prev_level,
               press_clock, press_gap, hold, ticks >>

NoCmd == << "(unbound)" >>
NoHold == [active |-> FALSE, fired |-> 0, open |-> FALSE]
Boots == {BootLate, TICKS_PERIOD - BootBeforeWrap}

now == ticks_ms(boot, clock)

\* time.time(), in seconds
time_s(clock_) == clock_ \div 1000

(***************************************************************************)
(* Lines 39-43: the state after the module's globals are set.              *)
(***************************************************************************)
Start ==
    /\ mode = "auto"
    /\ last_readings = <<>>
    /\ last_button_state \in {0, 1}
    /\ last_button_time = 0
    /\ led \in {0, 1} /\ buzzer \in {0, 1}
    /\ pc = "tick"
    /\ temp = None /\ ldr_val = None
    /\ dht_in = <<>>
    /\ start_time = 0
    /\ cmd = NoCmd
    /\ clock = 0
    /\ log = <<>>
    /\ pressed = FALSE
    /\ prev_level = last_button_state
    /\ press_clock = -1
    /\ press_gap = -1
    /\ hold = NoHold
    /\ start_clock = 0
    /\ button_down = FALSE
    /\ recorded = <<>>
    /\ ticks = 0
    /\ inputs = 0

Init == Start /\ boot = BootLate

(***************************************************************************)
(* One check_button call on the pin's level, with the history              *)
(* variables that follow the debouncer.  A hold is a run of consecutive    *)
(* polls that sampled the pin low after a poll that sampled it high; it is *)
(* open once one of its polls lay outside the debounce window.             *)
(***************************************************************************)
hold_after(level, r) ==
    LET outside == ticks_diff(now, last_button_time) > debounce_delay
        fire == IF r.pressed THEN 1 ELSE 0
    IN  IF level = 1 THEN NoHold
        ELSE IF prev_level = 1
             THEN [active |-> TRUE, fired |-> fire, open |-> outside]
             ELSE IF hold.active
                  THEN [active |-> TRUE, fired |-> hold.fired + fire,
                        open |-> hold.open \/ outside]
                  ELSE hold

Poll(level, r) ==
    /\ r = check_button(level, now, last_button_state, last_button_time)
    /\ last_button_state' = r.state
    /\ last_button_time' = r.time
    /\ pressed' = r.pressed
    /\ prev_level' = level
    /\ press_clock' = IF r.pressed THEN clock ELSE press_clock
    /\ press_gap' = IF r.pressed /\ press_clock >= 0 THEN clock - press_clock ELSE press_gap
    /\ hold' = hold_after(level, r)
    /\ ticks' = ticks + 1

(***************************************************************************)
(* Lines 232-240: the main loop's reaction to an accepted press.           *)
(***************************************************************************)
\* as button_switch, but without the led.off() and buzzer.off() calls
button_switch_keeps_outputs(mode_, led_, buzzer_) ==
    IF mode_ = "auto"
    THEN [mode |-> "manual", led |-> led_, buzzer |-> buzzer_,
          log |-> <<"print:[BUTTON] Switching to Manual Mode">>]
    ELSE [mode |-> "auto", led |-> led_, buzzer |-> buzzer_,
          log |-> <<"print:[BUTTON] Switching to Auto Mode">>]

button_switch(mode_, led_, buzzer_) ==
    IF mode_ = "auto"
    THEN [mode |-> "manual", led |-> 0, buzzer |-> 0,
          log |-> <<"print:[BUTTON] Switching to Manual Mode", "led.off", "buzzer.off">>]
    ELSE [mode |-> "auto", led |-> led_, buzzer |-> buzzer_,
          log |-> <<"print:[BUTTON] Switching to Auto Mode">>]

\* lines 232-243: poll the button, switch mode on a press, dispatch on the mode
ButtonCheck ==
    /\ pc = "tick"
    /\ ticks < MaxTicks
    /\ \E level \in {0, 1} :
          LET r == check_button(level, now, last_button_state, last_button_time)
              sw == IF r.pressed
                       THEN button_switch(mode, led, buzzer)
                       ELSE [mode |-> mode, led |-> led, buzzer |-> buzzer, log |-> <<>>]
          IN  /\ Poll(level, r)
              /\ mode' = sw.mode
              /\ led' = sw.led
              /\ buzzer' = sw.buzzer
              /\ log' = <<"check_button">> \o sw.log
              /\ pc' = IF sw.mode = "auto" THEN "auto" ELSE "manual"
    /\ temp' = None /\ ldr_val' = None /\ dht_in' = <<>>
    /\ UNCHANGED << last_readings, start_time, cmd, boot, clock,
                    start_clock, button_down, recorded, inputs >>

(***************************************************************************)
(* auto_mode, lines 116-137, and the sleep of line 245.                    *)
(***************************************************************************)
auto_mode(readings, results, adc, clock_) ==
    LET s == read_sensors(results, adc)
        both == BothPresent(s.temp, s.light)
        b == auto_buzzer(s.temp, s.light)
        l == auto_led(s.temp, s.light)
        reading == Reading(time_s(clock_ + s.elapsed), s.temp, s.light)
    IN  [temp     |-> s.temp,
         light    |-> s.light,
         buzzer   |-> b,
         led      |-> l,
         readings |-> IF both THEN add_reading(readings, reading) ELSE readings,
         records  |-> IF both THEN <<reading>> ELSE <<>>,
         elapsed  |-> s.elapsed,
         log      |-> <<"auto_mode">> \o s.log
                      \o (IF both
                          THEN <<"print:[AUTO MODE]", "add_reading",
                                 IF b = 1 THEN "buzzer.on" ELSE "buzzer.off",
                                 IF l = 1 THEN "led.on" ELSE "led.off">>
                          ELSE <<"print:Sensor error", "buzzer.off", "led.off">>)
                      \o <<"update_oled">>]

AutoPass ==
    /\ pc = "auto"
    /\ \E results \in DhtRuns, adc \in AdcResults :
          LET a == auto_mode(last_readings, results, adc, clock)
          IN  /\ temp' = a.temp
              /\ ldr_val' = a.light
              /\ dht_in' = results
              /\ buzzer' = a.buzzer
              /\ led' = a.led
              /\ last_readings' = a.readings
              /\ recorded' = recorded \o a.records
              /\ log' = a.log \o <<"sleep">>
              /\ clock' = clock + a.elapsed + AUTO_SLEEP
    /\ pc' = "tick"
    /\ UNCHANGED << mode, start_time, cmd, boot, start_clock, button_down, inputs >>
    /\ UNCHANGED debounce

(***************************************************************************)
(* manual_mode.                                                            *)
(***************************************************************************)
\* The button may go down while the session waits for input; the press counts
\* when it comes more than debounce_delay after the press that opened the
\* session.
press_seen(press, clock_) ==
    press /\ clock_ - press_clock > debounce_delay

\* lines 152-166: sensor read, render, menu, start of the inactivity timer
ManualEntry ==
    /\ pc = "manual"
    /\ \E results \in ManualDhtRuns, adc \in ManualAdcResults :
          LET s == read_sensors(results, adc)
          IN  /\ temp' = s.temp
              /\ ldr_val' = s.light
              /\ dht_in' = results
              /\ clock' = clock + s.elapsed
              /\ start_time' = ticks_ms(boot, clock + s.elapsed)
              /\ start_clock' = clock + s.elapsed
              /\ log' = <<"manual_mode">> \o s.log \o <<"update_oled", "print:[MANUAL MODE] Commands", "timer_reset">>
    /\ cmd' = NoCmd
    /\ button_down' = FALSE
    /\ pc' = "session"
    /\ UNCHANGED << mode, last_readings, led, buzzer, boot, recorded, inputs >>
    /\ UNCHANGED debounce

\* as expired, but with the limit taken in seconds against the ms counter
expired_in_seconds(clock_) ==
    ticks_diff(ticks_ms(boot, clock_), start_time) > INACTIVITY_LIMIT * 1000

\* as expired, but with >= for the limit
expired_at_limit(clock_) ==
    ticks_diff(ticks_ms(boot, clock_), start_time) >= INACTIVITY_LIMIT

\* line 170: the inactivity check at clock_
expired(clock_) ==
    ticks_diff(ticks_ms(boot, clock_), start_time) > INACTIVITY_LIMIT

\* line 168 with the mode no longer manual: return, then the sleep of line 248
SessionExit ==
    /\ pc = "session"
    /\ mode # "manual"
    /\ log' = <<"return", "sleep">>
    /\ clock' = clock + MANUAL_SLEEP
    /\ cmd' = NoCmd
    /\ pc' = "tick"
    /\ temp' = None /\ ldr_val' = None /\ dht_in' = <<>>
    /\ UNCHANGED << mode, last_readings, led, buzzer, start_time, boot,
                    start_clock, button_down, recorded, inputs >>
    /\ UNCHANGED debounce

\* as SessionTimeout, but returning without the assignment mode = "auto"
SessionTimeout_keeps_mode ==
    /\ pc = "session"
    /\ mode = "manual"
    /\ expired(clock)
    /\ log' = <<"timer_check", "print:Timeout: Switching back to Auto Mode", "return", "sleep">>
    /\ clock' = clock + MANUAL_SLEEP
    /\ cmd' = NoCmd
    /\ pc' = "tick"
    /\ temp' = None /\ ldr_val' = None /\ dht_in' = <<>>
    /\ UNCHANGED << mode, last_readings, led, buzzer, start_time, boot,
                    start_clock, button_down, recorded, inputs >>
    /\ UNCHANGED debounce

\* lines 170-173: timeout, return, then the sleep of line 248
SessionTimeout ==
    /\ pc = "session"
    /\ mode = "manual"
    /\ expired(clock)
    /\ mode' = "auto"
    /\ log' = <<"timer_check", "print:Timeout: Switching back to Auto Mode", "return", "sleep">>
    /\ clock' = clock + MANUAL_SLEEP
    /\ cmd' = NoCmd
    /\ pc' = "tick"
    /\ temp' = None /\ ldr_val' = None /\ dht_in' = <<>>
    /\ UNCHANGED << last_readings, led, buzzer, start_time, boot,
                    start_clock, button_down, recorded, inputs >>
    /\ UNCHANGED debounce

\* The number of consecutive iterations, at most k, in which the timer check
\* passes and poll(100) times out: the run stops at the first loop top at which
\* the timer has expired.
idle_run(k) ==
    CHOOSE m \in 1..k :
        /\ m = k \/ expired(clock + m * POLL_TIMEOUT)
        /\ \A j \in 1..(m - 1) : ~expired(clock + j * POLL_TIMEOUT)

\* as SessionIdle, but with the poll at the top of the iteration and the
\* timer check after it
SessionIdle_poll_first ==
    /\ pc = "session"
    /\ mode = "manual"
    /\ clock' = clock + idle_run(IdleRun) * POLL_TIMEOUT
    /\ log' = <<"poll", "timer_check">>
    /\ \E press \in BOOLEAN : button_down' = press_seen(press, clock')
    /\ temp' = None /\ ldr_val' = None /\ dht_in' = <<>>
    /\ cmd' = NoCmd
    /\ UNCHANGED << mode, last_readings, led, buzzer, pc, start_time,
                    boot, start_clock, recorded, inputs >>
    /\ UNCHANGED debounce

\* lines 168-176 with no input pending: only time passes
SessionIdle ==
    /\ pc = "session"
    /\ mode = "manual"
    /\ ~expired(clock)
    /\ clock' = clock + idle_run(IdleRun) * POLL_TIMEOUT
    /\ log' = <<"timer_check", "poll">>
    /\ \E press \in BOOLEAN : button_down' = press_seen(press, clock')
    /\ temp' = None /\ ldr_val' = None /\ dht_in' = <<>>
    /\ cmd' = NoCmd
    /\ UNCHANGED << mode, last_readings, led, buzzer, pc, start_time,
                    boot, start_clock, recorded, inputs >>
    /\ UNCHANGED debounce

\* lines 176-185 when sys.stdin.read raises: notice on the display, continue
SessionReadError ==
    /\ pc = "session"
    /\ mode = "manual"
    /\ ~expired(clock)
    /\ inputs < MaxInputs
    /\ inputs' = inputs + 1
    /\ clock' = clock + InputDelay
    /\ log' = <<"timer_check", "poll", "read", "print:Input error", "oled:Serial Unavailable">>
    /\ button_down' = FALSE
    /\ temp' = None /\ ldr_val' = None /\ dht_in' = <<>>
    /\ cmd' = NoCmd
    /\ UNCHANGED << mode, last_readings, led, buzzer, pc, start_time,
                    boot, start_clock, recorded >>
    /\ UNCHANGED debounce

\* as manual_command, but without `global mode`: m assigns a local
manual_command_local_mode(c, st, results, adc, clock_) ==
    LET keep == [mode |-> st.mode, led |-> st.led, buzzer |-> st.buzzer,
                 readings |-> st.readings, records |-> <<>>,
                 temp |-> None, light |-> None, elapsed |-> 0]
    IN  CASE c = <<"b">> ->
               [keep EXCEPT !.buzzer = 1 - st.buzzer] @@
               [log |-> <<"buzzer.toggle", "print:Buzzer toggled">>]
          [] c = <<"l">> ->
               [keep EXCEPT !.led = 1 - st.led] @@
               [log |-> <<"led.toggle", "print:LED toggled">>]
          [] c = <<"r">> ->
               LET s == read_sensors(results, adc)
                   reading == Reading(time_s(clock_ + s.elapsed), s.temp, s.light)
               IN  IF BothPresent(s.temp, s.light)
                   THEN [keep EXCEPT !.temp = s.temp, !.light = s.light,
                                     !.elapsed = s.elapsed,
                                     !.readings = add_reading(st.readings, reading),
                                     !.records = <<reading>>] @@
                        [log |-> s.log \o <<"print:Sensor read", "add_reading", "update_oled">>]
                   ELSE [keep EXCEPT !.temp = s.temp, !.light = s.light,
                                     !.elapsed = s.elapsed] @@
                        [log |-> s.log \o <<"print:Error reading sensors.">>]
          [] c = <<"s">> ->
               keep @@ [log |-> <<"print_readings">>]
          [] c = <<"m">> ->
               keep @@
               [log |-> <<"print:Switching to Auto Mode">>]
          [] OTHER ->
               keep @@ [log |-> <<"print:Unknown command.">>]

\* as manual_command, but matching the command by its first character
manual_command_by_prefix(c, st, results, adc, clock_) ==
    LET keep == [mode |-> st.mode, led |-> st.led, buzzer |-> st.buzzer,
                 readings |-> st.readings, records |-> <<>>,
                 temp |-> None, light |-> None, elapsed |-> 0]
    IN  CASE (c # <<>> /\ Head(c) = "b") ->
               [keep EXCEPT !.buzzer = 1 - st.buzzer] @@
               [log |-> <<"buzzer.toggle", "print:Buzzer toggled">>]
          [] (c # <<>> /\ Head(c) = "l") ->
               [keep EXCEPT !.led = 1 - st.led] @@
               [log |-> <<"led.toggle", "print:LED toggled">>]
          [] (c # <<>> /\ Head(c) = "r") ->
               LET s == read_sensors(results, adc)
                   reading == Reading(time_s(clock_ + s.elapsed), s.temp, s.light)
               IN  IF BothPresent(s.temp, s.light)
                   THEN [keep EXCEPT !.temp = s.temp, !.light = s.light,
                                     !.elapsed = s.elapsed,
                                     !.readings = add_reading(st.readings, reading),
                                     !.records = <<reading>>] @@
                        [log |-> s.log \o <<"print:Sensor read", "add_reading", "update_oled">>]
                   ELSE [keep EXCEPT !.temp = s.temp, !.light = s.light,
                                     !.elapsed = s.elapsed] @@
                        [log |-> s.log \o <<"print:Error reading sensors.">>]
          [] (c # <<>> /\ Head(c) = "s") ->
               keep @@ [log |-> <<"print_readings">>]
          [] (c # <<>> /\ Head(c) = "m") ->
               [keep EXCEPT !.mode = "auto"] @@
               [log |-> <<"print:Switching to Auto Mode">>]
          [] OTHER ->
               keep @@ [log |-> <<"print:Unknown command.">>]

\* as manual_command, but with r applying the Auto policy to what it read
manual_command_applies_policy(c, st, results, adc, clock_) ==
    LET keep == [mode |-> st.mode, led |-> st.led, buzzer |-> st.buzzer,
                 readings |-> st.readings, records |-> <<>>,
                 temp |-> None, light |-> None, elapsed |-> 0]
    IN  CASE c = <<"b">> ->
               [keep EXCEPT !.buzzer = 1 - st.buzzer] @@
               [log |-> <<"buzzer.toggle", "print:Buzzer toggled">>]
          [] c = <<"l">> ->
               [keep EXCEPT !.led = 1 - st.led] @@
               [log |-> <<"led.toggle", "print:LED toggled">>]
          [] c = <<"r">> ->
               LET s == read_sensors(results, adc)
                   reading == Reading(time_s(clock_ + s.elapsed), s.temp, s.light)
               IN  IF BothPresent(s.temp, s.light)
                   THEN [keep EXCEPT !.temp = s.temp, !.light = s.light,
                                     !.elapsed = s.elapsed,
                                     !.buzzer = auto_buzzer(s.temp, s.light),
                                     !.led = auto_led(s.temp, s.light),
                                     !.readings = add_reading(st.readings, reading),
                                     !.records = <<reading>>] @@
                        [log |-> s.log \o <<"print:Sensor read", "add_reading", "update_oled">>]
                   ELSE [keep EXCEPT !.temp = s.temp, !.light = s.light,
                                     !.elapsed = s.elapsed] @@
                        [log |-> s.log \o <<"print:Error reading sensors.">>]
          [] c = <<"s">> ->
               keep @@ [log |-> <<"print_readings">>]
          [] c = <<"m">> ->
               [keep EXCEPT !.mode = "auto"] @@
               [log |-> <<"print:Switching to Auto Mode">>]
          [] OTHER ->
               keep @@ [log |-> <<"print:Unknown command.">>]

\* lines 187-207: the command dispatch
manual_command(c, st, results, adc, clock_) ==
    LET keep == [mode |-> st.mode, led |-> st.led, buzzer |-> st.buzzer,
                 readings |-> st.readings, records |-> <<>>,
                 temp |-> None, light |-> None, elapsed |-> 0]
    IN  CASE c = <<"b">> ->
               [keep EXCEPT !.buzzer = 1 - st.buzzer] @@
               [log |-> <<"buzzer.toggle", "print:Buzzer toggled">>]
          [] c = <<"l">> ->
               [keep EXCEPT !.led = 1 - st.led] @@
               [log |-> <<"led.toggle", "print:LED toggled">>]
          [] c = <<"r">> ->
               LET s == read_sensors(results, adc)
                   reading == Reading(time_s(clock_ + s.elapsed), s.temp, s.light)
               IN  IF BothPresent(s.temp, s.light)
                   THEN [keep EXCEPT !.temp = s.temp, !.light = s.light,
                                     !.elapsed = s.elapsed,
                                     !.readings = add_reading(st.readings, reading),
                                     !.records = <<reading>>] @@
                        [log |-> s.log \o <<"print:Sensor read", "add_reading", "update_oled">>]
                   ELSE [keep EXCEPT !.temp = s.temp, !.light = s.light,
                                     !.elapsed = s.elapsed] @@
                        [log |-> s.log \o <<"print:Error reading sensors.">>]
          [] c = <<"s">> ->
               keep @@ [log |-> <<"print_readings">>]
          [] c = <<"m">> ->
               [keep EXCEPT !.mode = "auto"] @@
               [log |-> <<"print:Switching to Auto Mode">>]
          [] OTHER ->
               keep @@ [log |-> <<"print:Unknown command.">>]

\* lines 176-207 when an input is read: reset the timer, run the command
SessionInput ==
    /\ pc = "session"
    /\ mode = "manual"
    /\ ~expired(clock)
    /\ inputs < MaxInputs
    /\ inputs' = inputs + 1
    /\ \E raw \in RawInputs :
          LET c == read_cmd(raw)
              t == clock + InputDelay
              st == [mode |-> mode, led |-> led, buzzer |-> buzzer,
                     readings |-> last_readings]
          IN  \E results \in (IF c = <<"r">> THEN ManualDhtRuns ELSE {<<>>}),
                 adc \in (IF c = <<"r">> THEN ManualAdcResults ELSE {Raise}) :
                 LET d == manual_command(c, st, results, adc, t)
                 IN  /\ cmd' = c
                     /\ start_time' = ticks_ms(boot, t)
                     /\ start_clock' = t
                     /\ mode' = d.mode
                     /\ led' = d.led
                     /\ buzzer' = d.buzzer
                     /\ last_readings' = d.readings
                     /\ recorded' = recorded \o d.records
                     /\ temp' = d.temp
                     /\ ldr_val' = d.light
                     /\ dht_in' = results
                     /\ clock' = t + d.elapsed
                     /\ log' = <<"timer_check", "poll", "read", "timer_reset">> \o d.log
    /\ button_down' = FALSE
    /\ pc' = "session"
    /\ UNCHANGED boot
    /\ UNCHANGED debounce

Next ==
    \/ ButtonCheck
    \/ AutoPass
    \/ ManualEntry
    \/ SessionExit
    \/ SessionTimeout
    \/ SessionIdle
    \/ SessionReadError
    \/ SessionInput

Spec == Init /\ [][Next]_vars

(***************************************************************************)
(* The debouncer alone: check_button fed any levels at any of a few gaps,  *)
(* from a tick counter that starts late or wraps during the run.           *)
(***************************************************************************)
SampleGaps == {1, SampleGap, debounce_delay}

InitDebounce == Start /\ boot \in Boots

PollSample ==
    /\ pc = "tick"
    /\ ticks < MaxSamples
    /\ \E level \in {0, 1} :
          Poll(level, check_button(level, now, last_button_state, last_button_time))
    /\ \E gap \in SampleGaps : clock' = clock + gap
    /\ log' = <<"check_button">>
    /\ UNCHANGED << mode, last_readings, led, buzzer, pc, temp, ldr_val, dht_in,
                    start_time, cmd, boot, start_clock, button_down, recorded, inputs >>

NextDebounce == PollSample

SpecDebounce == InitDebounce /\ [][NextDebounce]_vars

(***************************************************************************)
(* The debouncer over long stretches of time: as above, and the program    *)
(* may also run for half a period of the tick counter between two polls    *)
(* (an Auto-mode device nobody touches for some six days), until the       *)
(* counter has gone round once.                                            *)
(***************************************************************************)
PollBeforeWait ==
    /\ pc = "tick"
    /\ ticks < MaxSamples
    /\ clock < TICKS_PERIOD
    /\ \E level \in {0, 1} :
          Poll(level, check_button(level, now, last_button_state, last_button_time))
    /\ clock' = clock + TICKS_HALF
    /\ log' = <<"check_button">>
    /\ UNCHANGED << mode, last_readings, led, buzzer, pc, temp, ldr_val, dht_in,
                    start_time, cmd, boot, start_clock, button_down, recorded, inputs >>

NextWrap == PollSample \/ PollBeforeWait

SpecWrap == Init /\ [][NextWrap]_vars

(***************************************************************************)
(* read_sensors alone: called again and again, the two DHT11 attempts and  *)
(* the ADC read each yielding a value or raising.                          *)
(***************************************************************************)
SensorRead ==
    /\ clock < MaxReadClock
    /\ \E results \in [1..DHT_ATTEMPTS -> DhtResults], adc \in AdcResults :
          LET s == read_sensors(results, adc)
          IN  /\ temp' = s.temp
              /\ ldr_val' = s.light
              /\ dht_in' = results
              /\ log' = s.log
              /\ clock' = clock + s.elapsed
    /\ UNCHANGED << mode, last_readings, led, buzzer, pc, start_time, cmd, boot,
                    start_clock, button_down, recorded, inputs >>
    /\ UNCHANGED debounce

NextSensors == SensorRead

SpecSensors == Init /\ [][NextSensors]_vars

(***************************************************************************)
(* The history buffer alone: add_reading called again and again.           *)
(***************************************************************************)
Record ==
    /\ Len(recorded) < MaxRecords
    /\ \E t \in TempValues :
          LET reading == Reading(time_s(clock), t, LIGHT_THRESHOLD)
          IN  /\ last_readings' = add_reading(last_readings, reading)
              /\ recorded' = Append(recorded, reading)
    /\ clock' = clock + AUTO_SLEEP
    /\ log' = <<"add_reading">>
    /\ UNCHANGED << mode, led, buzzer, pc, temp, ldr_val, dht_in, start_time, cmd,
                    boot, start_clock, button_down, inputs >>
    /\ UNCHANGED debounce

NextHistory == Record

SpecHistory == Init /\ [][NextHistory]_vars

(***************************************************************************)
(* The program under the scheduling of its single thread: the session     *)
(* loop never stops while it has an iteration to run.                      *)
(***************************************************************************)
SessionLoop == SessionIdle \/ SessionTimeout \/ SessionExit

LiveSpec == Spec /\ WF_vars(SessionLoop)

(***************************************************************************)
(* C1.  After n add_reading calls the history buffer holds exactly the     *)
(* last min(10, n) readings recorded, oldest first: its length is          *)
(* min(10, n), never more than 10, and after 11 calls its oldest entry is  *)
(* the reading of the 2nd call.                                            *)
(***************************************************************************)
LastN(s, n) == SubSeq(s, Len(s) - n + 1, Len(s))

C1_HistoryIsLastTen ==
    LET n == Len(recorded)
    IN  /\ Len(last_readings) = Min(HISTORY_SIZE, n)
        /\ Len(last_readings) <= HISTORY_SIZE
        /\ last_readings = LastN(recorded, Min(HISTORY_SIZE, n))
        /\ n = HISTORY_SIZE + 1 => Head(last_readings) = recorded[2]

\* eleven calls made, the first reading gone and the second one the oldest
C1_Witness ==
    /\ Len(recorded) = HISTORY_SIZE + 1
    /\ Head(last_readings) = recorded[2]
    /\ recorded[1] # recorded[2]
    /\ \A i \in 1..Len(last_readings) : last_readings[i] # recorded[1]

(***************************************************************************)
(* C2.  Whatever levels and times check_button is fed, two polls that      *)
(* return True are more than 300 ms apart.                                 *)
(***************************************************************************)
C2_PressesApart == press_gap = -1 \/ press_gap > debounce_delay

\* a second press accepted, in the first ms the debounce window allows
C2_Witness == pressed /\ press_gap = debounce_delay + 1

AutoPassStep == pc = "auto" /\ pc' = "tick"

\* the latest reading recorded switched both outputs on
LastRecordedBothOn ==
    /\ recorded # <<>>
    /\ recorded[Len(recorded)].temp > TEMP_THRESHOLD
    /\ recorded[Len(recorded)].light < LIGHT_THRESHOLD

(***************************************************************************)
(* C4.  An Auto pass in which the temperature or the light value is none   *)
(* ends with the buzzer and the LED off, whatever the other value and      *)
(* whatever the outputs were before.                                       *)
(***************************************************************************)
C4_FailSafeOff ==
    [][(AutoPassStep /\ (temp' = None \/ ldr_val' = None))
          => (led' = 0 /\ buzzer' = 0)]_vars

\* after a pass that switched both outputs on, a pass without temperature
\* and with a dark light value has switched both off
C4_Witness ==
    /\ pc = "tick" /\ log # <<>> /\ Head(log) = "auto_mode"
    /\ temp = None /\ ldr_val = LIGHT_THRESHOLD - 1
    /\ LastRecordedBothOn
    /\ led = 0 /\ buzzer = 0

(***************************************************************************)
(* C5.  An Auto pass with both readings present ends with the buzzer on    *)
(* iff temperature > TEMP_THRESHOLD and the LED on iff                     *)
(* light < LIGHT_THRESHOLD, both strictly: a value equal to its threshold  *)
(* leaves its output off.                                                  *)
(***************************************************************************)
C5_ThresholdPolicy ==
    [][(AutoPassStep /\ temp' # None /\ ldr_val' # None)
          => /\ (buzzer' = 1) <=> (temp' > TEMP_THRESHOLD)
             /\ (led' = 1) <=> (ldr_val' < LIGHT_THRESHOLD)
             /\ (temp' = TEMP_THRESHOLD => buzzer' = 0)
             /\ (ldr_val' = LIGHT_THRESHOLD => led' = 0)]_vars

\* both values exactly at their thresholds, both outputs off, after a pass
\* that had switched both on
C5_Witness ==
    /\ pc = "tick" /\ log # <<>> /\ Head(log) = "auto_mode"
    /\ temp = TEMP_THRESHOLD /\ ldr_val = LIGHT_THRESHOLD
    /\ Len(recorded) = 2
    /\ recorded[1].temp > TEMP_THRESHOLD /\ recorded[1].light < LIGHT_THRESHOLD
    /\ led = 0 /\ buzzer = 0

(***************************************************************************)
(* C6.  Every step that takes the mode from Auto to Manual leaves the LED  *)
(* and the buzzer off, with manual_mode not yet entered.                   *)
(***************************************************************************)
C6_ManualEntryClears ==
    [][(mode = "auto" /\ mode' = "manual")
          => (led' = 0 /\ buzzer' = 0 /\ pc' = "manual")]_vars

\* the press arrives after an Auto pass that switched both outputs on
C6_Witness ==
    /\ pc = "manual" /\ mode = "manual" /\ pressed
    /\ LastRecordedBothOn
    /\ led = 0 /\ buzzer = 0

(***************************************************************************)
(* C7.  While a Manual session runs, a button press ends it: the session   *)
(* step that follows a press (the next loop top) takes the mode to Auto    *)
(* and leaves the session, with no m command and no timeout needed.        *)
(***************************************************************************)
C7_ButtonEndsSession ==
    [][(pc = "session" /\ mode = "manual" /\ button_down)
          => (mode' = "auto" /\ pc' = "tick")]_vars

(***************************************************************************)
(* C8.  A Manual session whose inactivity time has passed 10 000 ms at a   *)
(* loop top exits there with the mode Auto, and every session is           *)
(* eventually left with the mode Auto once input stops arriving.           *)
(***************************************************************************)
InLog(entry) == \E i \in 1..Len(log) : log[i] = entry

IdleTooLong ==
    pc = "session" /\ mode = "manual" /\ clock - start_clock > INACTIVITY_LIMIT

C8_TimeoutExits ==
    /\ [][IdleTooLong => (mode' = "auto" /\ pc' = "tick")]_vars
    /\ (pc = "session") ~> (pc = "tick" /\ mode = "auto")

\* the session has just timed out, after 10 001 ms or more without input
C8_Witness ==
    /\ pc = "tick" /\ mode = "auto"
    /\ InLog("print:Timeout: Switching back to Auto Mode")
    /\ clock - MANUAL_SLEEP - start_clock > INACTIVITY_LIMIT

(***************************************************************************)
(* C9.  An input that trims and lower-cases to m sets the mode to Auto,    *)
(* and the session then exits at once: the next step is the return, with   *)
(* no poll and no command in between, however long the session had been    *)
(* idle when the input came.                                               *)
(***************************************************************************)
C9_ModeCommandExits ==
    [][/\ cmd' = <<"m">> => (mode' = "auto" /\ pc' = "session")
       /\ (pc = "session" /\ mode = "auto")
             => /\ pc' = "tick"
                /\ log' = <<"return", "sleep">>
                /\ UNCHANGED << mode, led, buzzer, last_readings, inputs >>]_vars

\* m read more than 10 000 ms after the session opened, with no input before
C9_Witness ==
    /\ pc = "session" /\ cmd = <<"m">> /\ mode = "auto"
    /\ inputs = 1
    /\ start_clock - press_clock > INACTIVITY_LIMIT

(***************************************************************************)
(* C10.  An input that trims and lower-cases to anything but b, l, r, s    *)
(* or m is reported as unknown and leaves the mode, the LED, the buzzer    *)
(* and the history buffer as they were.                                    *)
(***************************************************************************)
C10_UnknownChangesNothing ==
    [][(cmd' # NoCmd /\ cmd' \notin Commands)
          => /\ log'[Len(log')] = "print:Unknown command."
             /\ UNCHANGED << mode, led, buzzer, last_readings >>]_vars

\* "mm" read in a session that holds a recorded reading
C10_Witness ==
    /\ pc = "session" /\ mode = "manual"
    /\ cmd = <<"m", "m">>
    /\ InLog("print:Unknown command.")
    /\ last_readings # <<>>

\* entry is among the calls and prints of l
Logged(l, entry) == \E i \in 1..Len(l) : l[i] = entry

(***************************************************************************)
(* C11.  No sensor or input error is fatal and each is reported as none:   *)
(* a read_sensors call whose temperature attempts all raise returns        *)
(* temperature none, one whose light read raises or yields a value outside *)
(* 0..65535 returns light none, an input read error leaves the session     *)
(* running in Manual, and each of these steps hands control back to the    *)
(* loop it ran in.                                                         *)
(***************************************************************************)
C11_ErrorsAreNone ==
    [][/\ (dht_in' # <<>> /\ \A i \in 1..DHT_ATTEMPTS : dht_in'[i] = Raise)
             => (temp' = None /\ pc' \in {"tick", "session"})
       /\ Logged(log', "print:Error reading LDR sensor")
             => (ldr_val' = None /\ pc' \in {"tick", "session"})
       /\ Logged(log', "print:Input error")
             => (mode' = "manual" /\ pc' = "session")]_vars

\* the time since the reference of the debounce comparison: the latest
\* accepted press, or before the first one the tick counter's zero
SinceReference == IF press_clock >= 0 THEN clock - press_clock ELSE boot + clock

(***************************************************************************)
(* C12.  Both timeouts compare true elapsed time, whatever the tick        *)
(* counter did in between: a poll that samples the button low after a      *)
(* high, more than 300 ms after the reference (the latest accepted press,  *)
(* at first the counter's zero), is an accepted press; a session loop top  *)
(* more than 10 000 ms after the last timer reset is the timeout exit.     *)
(***************************************************************************)
C12_WrapTolerant ==
    [][/\ (ticks' = ticks + 1 /\ prev_level' = 0 /\ last_button_state = 1
             /\ SinceReference > debounce_delay)
             => pressed'
       /\ (pc = "session" /\ mode = "manual" /\ clock - start_clock > INACTIVITY_LIMIT)
             => (mode' = "auto" /\ pc' = "tick")]_vars

\* the first place of entry among the calls and prints of l, 0 if it has none
RECURSIVE Place(_, _, _)
Place(l, entry, i) ==
    IF i > Len(l) THEN 0
    ELSE IF l[i] = entry THEN i
    ELSE Place(l, entry, i + 1)

(***************************************************************************)
(* C13.  The mode-specific work of a tick (Auto pass or Manual session) is *)
(* dispatched by, and starts right after, that tick's button check; and    *)
(* each iteration of the session loop checks the inactivity timer before   *)
(* it polls for input, so a loop top with the timer expired polls nothing. *)
(***************************************************************************)
C13_CheckBeforeWork ==
    [][/\ (pc' \in {"auto", "manual"})
             => (pc = "tick" /\ Head(log') = "check_button")
       /\ (Logged(log', "auto_mode") \/ Logged(log', "manual_mode"))
             => (pc \in {"auto", "manual"} /\ Head(log) = "check_button")
       /\ Logged(log', "poll")
             => (Place(log', "timer_check", 1) > 0
                 /\ Place(log', "timer_check", 1) < Place(log', "poll", 1))
       /\ (pc = "session" /\ mode = "manual" /\ expired(clock))
             => ~Logged(log', "poll")]_vars

\* a session opened by a press has checked its timer, polled and read an input
C13_Witness ==
    /\ pc = "session" /\ pressed /\ ticks = 1
    /\ Len(log) >= 3
    /\ log[1] = "timer_check" /\ log[2] = "poll" /\ log[3] = "read"

\* how often entry is among the calls and prints of l
RECURSIVE Count(_, _)
Count(l, entry) ==
    IF l = <<>> THEN 0
    ELSE (IF Head(l) = entry THEN 1 ELSE 0) + Count(Tail(l), entry)

ButtonPoll == ticks' = ticks + 1

(***************************************************************************)
(* C15.  A check_button poll that samples the level the previous poll      *)
(* sampled fires no press and leaves last_button_state and                 *)
(* last_button_time as they were.                                          *)
(***************************************************************************)
C15_SameLevelNoChange ==
    [][(ButtonPoll /\ prev_level' = prev_level)
          => (~pressed' /\ UNCHANGED << last_button_state, last_button_time >>)]_vars

\* the step is one of manual_mode: its entry or an iteration of its loop
ManualStep == pc \in {"manual", "session"}

(***************************************************************************)
(* C16.  No step of manual_mode applies a policy to the outputs: the LED   *)
(* changes only by the l command and the buzzer only by the b command,     *)
(* each of which flips its own output and leaves the other output, the     *)
(* mode and the history alone; the entry read and the r and s commands     *)
(* leave both outputs as they were.                                        *)
(***************************************************************************)
C16_ManualOnlyToggles ==
    [][ManualStep =>
          /\ (led' # led) => cmd' = <<"l">>
          /\ (buzzer' # buzzer) => cmd' = <<"b">>
          /\ cmd' = <<"l">>
                => (led' = 1 - led /\ UNCHANGED << buzzer, mode, last_readings >>)
          /\ cmd' = <<"b">>
                => (buzzer' = 1 - buzzer /\ UNCHANGED << led, mode, last_readings >>)
          /\ (Logged(log', "manual_mode") \/ cmd' \in { <<"r">>, <<"s">> })
                => UNCHANGED << led, buzzer >>]_vars

\* l has switched the LED on in a session that holds a recorded reading
C16_Witness ==
    /\ pc = "session" /\ mode = "manual" /\ cmd = <<"l">>
    /\ led = 1 /\ buzzer = 0
    /\ last_readings # <<>>

(***************************************************************************)
(* C17.  Every input that is read, command or not, restarts the            *)
(* inactivity timer at the time of the read, and a session exits by        *)
(* timeout only when more than 10 000 ms have passed since the timer was   *)
(* last started, at session entry or at the latest input read.             *)
(***************************************************************************)
C17_TimerFromLastInput ==
    [][/\ cmd' # NoCmd
             => (start_clock' = clock + InputDelay
                 /\ start_time' = ticks_ms(boot, clock + InputDelay))
       /\ Logged(log', "print:Timeout: Switching back to Auto Mode")
             => clock - start_clock > INACTIVITY_LIMIT]_vars

\* a session that timed out after an input read more than 10 000 ms after
\* the press that opened it
C17_Witness ==
    /\ pc = "tick" /\ mode = "auto" /\ inputs = 1
    /\ Logged(log, "print:Timeout: Switching back to Auto Mode")
    /\ start_clock - press_clock > INACTIVITY_LIMIT
    /\ clock - MANUAL_SLEEP - start_clock > INACTIVITY_LIMIT

\* the places of the buzzer and LED updates among the calls and prints of l
BuzzerPlace(l) == Place(l, "buzzer.on", 1) + Place(l, "buzzer.off", 1)
LedPlace(l) == Place(l, "led.on", 1) + Place(l, "led.off", 1)

(***************************************************************************)
(* C18.  An Auto pass with both readings present does its work in the      *)
(* order sensor read, buzzer and LED update, history record, display       *)
(* render.                                                                 *)
(***************************************************************************)
C18_PassOrder ==
    [][(AutoPassStep /\ temp' # None /\ ldr_val' # None)
          => /\ 0 < Place(log', "read_sensors", 1)
             /\ Place(log', "read_sensors", 1) < BuzzerPlace(log')
             /\ Place(log', "read_sensors", 1) < LedPlace(log')
             /\ BuzzerPlace(log') < Place(log', "add_reading", 1)
             /\ LedPlace(log') < Place(log', "add_reading", 1)
             /\ Place(log', "add_reading", 1) < Place(log', "update_oled", 1)]_vars

(***************************************************************************)
(* C19.  A session is left only by its timeout or after the m command, so  *)
(* manual_mode returns with the mode Auto, every button check of the main  *)
(* loop finds the mode Auto, and the main loop never takes its             *)
(* Manual-to-Auto button branch.                                           *)
(***************************************************************************)
C19_SessionEndsByTimeoutOrM ==
    /\ [](pc = "tick" => mode = "auto")
    /\ [][/\ (pc = "session" /\ pc' = "tick")
                => /\ mode' = "auto"
                   /\ \/ Logged(log', "print:Timeout: Switching back to Auto Mode")
                      \/ cmd = <<"m">>
          /\ ~Logged(log', "print:[BUTTON] Switching to Auto Mode")]_vars

\* the button check of the tick after a session that a press had opened
C19_Witness ==
    /\ pc = "auto" /\ mode = "auto" /\ ticks = 2
    /\ log = <<"check_button">>
    /\ press_clock >= 0

(***************************************************************************)
(* C20.  Every entry of the history buffer has a temperature and a light   *)
(* value; a step whose sensor cycle gave none for either, in an Auto pass  *)
(* or by the r command, leaves the buffer as it was, and so does the       *)
(* sensor read at session entry whatever it gave.                          *)
(***************************************************************************)
C20_HistoryHasBothValues ==
    /\ [](\A i \in 1..Len(last_readings) :
             last_readings[i].temp # None /\ last_readings[i].light # None)
    /\ [][/\ (temp' = None \/ ldr_val' = None) => UNCHANGED last_readings
          /\ Logged(log', "manual_mode") => UNCHANGED last_readings]_vars

\* a session entry whose sensor read gave both values and recorded nothing
C20_Witness ==
    /\ pc = "session" /\ Logged(log, "manual_mode")
    /\ temp # None /\ ldr_val # None
    /\ Len(last_readings) = 1 /\ Len(recorded) = 1

====
